---- MODULE Spec2Model ----
(***************************************************************************)
(* A model of the aliyun-acm client (src/src/lib.rs, src/src/error.rs).    *)
(*                                                                         *)
(* Strings are sequences of one-character strings.  The control characters *)
(* U+0001 and U+0002 are the atoms SOH and STX, the line feed is LF.  The   *)
(* tasks are callers of the public methods of one shared Acm instance; the  *)
(* servers (address server, config server) are the environment.            *)
(***************************************************************************)
EXTENDS Integers, Sequences, FiniteSets, TLC

(* ------------------------------ bounds -------------------------------- *)

\* number of tasks that share the instance
NumTasks == 2
\* largest length of the `ids` vector handed to Acm::new
MaxIds == 2
\* number of requests whose headers are compared
NumSignings == 2

Tasks == 1..NumTasks

(* ------------------------------ strings ------------------------------- *)

SOH == "SOH"
STX == "STX"
LF == "LF"

RECURSIVE Concat(_)
\* the concatenation of a sequence of strings
Concat(ss) == IF ss = <<>> THEN <<>> ELSE Head(ss) \o Concat(Tail(ss))

\* pat occurs in s at position i
MatchAt(s, pat, i) ==
  /\ i + Len(pat) - 1 <= Len(s)
  /\ \A k \in 1..Len(pat) : s[i + k - 1] = pat[k]

\* the position of the leftmost occurrence of pat in s, 0 when there is none
FindFirst(s, pat) ==
  LET hits == { i \in 1..Len(s) : MatchAt(s, pat, i) }
  IN  IF hits = {} THEN 0 ELSE CHOOSE i \in hits : \A j \in hits : i <= j

RECURSIVE Split(_, _)
\* str::split(pat): the pieces between the non-overlapping occurrences of pat,
\* leftmost first; a trailing separator leaves a trailing empty piece
\* (x ranges over { s }, so that the rest of the string is evaluated once
\* for each piece)
Split(s, pat) ==
  LET pieces(x) ==
        LET i == FindFirst(x, pat)
        IN  IF i = 0 THEN << x >>
            ELSE << SubSeq(x, 1, i - 1) >> \o Split(SubSeq(x, i + Len(pat), Len(x)), pat)
  IN  CHOOSE r \in { pieces(x) : x \in { s } } : TRUE

Range(f) == { f[i] : i \in DOMAIN f }

(* ------------------------------ md5 ----------------------------------- *)

\* the config bodies the config server may hold or send
X1 == <<"x", "=", "1">>
X2 == <<"x", "=", "2">>
Contents == { X1, X2 }

\* hex::encode(Md5::digest(bytes)) on the bodies of the model
Md5Hex(bytes) ==
  CASE bytes = X1 ->
         << "a","2","5","5","5","1","2","f","9","d","6","1","a","6","7","7",
            "7","b","d","5","a","3","0","4","2","3","5","b","d","2","6","d" >>
    [] bytes = X2 ->
         << "5","6","6","1","6","2","f","3","a","f","a","f","9","f","5","f",
            "6","7","e","7","d","7","c","a","7","a","4","b","4","2","4","e" >>
    [] bytes = << >> ->
         << "d","4","1","d","8","c","d","9","8","f","0","0","b","2","0","4",
            "e","9","8","0","0","9","9","8","e","c","f","8","4","2","7","e" >>

(* ------------------------------ ipv4 ---------------------------------- *)

Digits == { "0", "1", "2", "3", "4", "5", "6", "7", "8", "9" }

DigitVal(c) ==
  CASE c = "0" -> 0 [] c = "1" -> 1 [] c = "2" -> 2 [] c = "3" -> 3
    [] c = "4" -> 4 [] c = "5" -> 5 [] c = "6" -> 6 [] c = "7" -> 7
    [] c = "8" -> 8 [] OTHER -> 9

RECURSIVE DecVal(_)
DecVal(s) == IF s = <<>> THEN 0 ELSE 10 * DecVal(SubSeq(s, 1, Len(s) - 1)) + DigitVal(s[Len(s)])

\* one octet of a dotted quad: 1 to 3 digits, no leading zero, at most 255
IsOctet(s) ==
  /\ Len(s) \in 1..3
  /\ \A k \in 1..Len(s) : s[k] \in Digits
  /\ (Len(s) > 1 => s[1] # "0")
  /\ DecVal(s) <= 255

NoAddr == << >>

\* str::parse::<Ipv4Addr>: the four octets, or NoAddr when s is no dotted quad
ParseIpv4(s) ==
  LET parts == Split(s, << "." >>)
  IN  IF Len(parts) = 4 /\ \A k \in 1..4 : IsOctet(parts[k])
      THEN [ k \in 1..4 |-> DecVal(parts[k]) ]
      ELSE NoAddr

(* --------------------------- configuration ---------------------------- *)

\* the AcmGroup and the ids the instance is built with
group == [ access_key |-> << "k" >>, secret_key |-> << "s" >>,
           namespace |-> << "n", "s", "1" >>,
           group |-> << "g", "r", "o", "u", "p", "1" >> ]

IdPool == { << "a" >>, << "b" >> }

\* the `ids` vectors Acm::new may be handed: any order, duplicates allowed
IdVectors == UNION { [ 1..n -> IdPool ] : n \in 0..MaxIds }

None == << >>
Some(x) == << x >>

(* ------------------------------ signer -------------------------------- *)

\* the AcmGroup values the signer is applied to
AccessKeys == { << "k" >>, << "j" >> }
SecretKeys == { << "s" >>, << "t" >> }
Namespaces == { << "a" >>, << "n" >>, << "a", "+", "b" >> }
Groups == { << "c" >>, << "b", "+", "c" >> }
AcmGroups ==
  [ access_key : AccessKeys, secret_key : SecretKeys, namespace : Namespaces, group : Groups ]

\* SystemTime::now() in milliseconds since the epoch
Millis == { 1, 12 }

DigitChar(d) == CHOOSE c \in Digits : DigitVal(c) = d

RECURSIVE ToDecimal(_)
\* u128::to_string
ToDecimal(n) ==
  IF n < 10 THEN << DigitChar(n) >> ELSE ToDecimal(n \div 10) \o << DigitChar(n % 10) >>

\* base64::encode(hmacsha1::hmac_sha1(key, message)) on the keys and messages
\* of the model
Base64HmacSha1(key, message) ==
  CASE key = << "s" >> /\ message = << "a", "+", "b", "+", "b", "+", "c", "+", "1" >> ->
         "pVbAllMhdKqGHM49L2h66b7LY7g="
    [] key = << "s" >> /\ message = << "a", "+", "b", "+", "b", "+", "c", "+", "1", "2" >> ->
         "oMbJCdKOnk+gdSQvsmNSu0DklJE="
    [] key = << "s" >> /\ message = << "a", "+", "b", "+", "c", "+", "1" >> ->
         "TN0794ux94Vw8zwUZLgV+3lHiJE="
    [] key = << "s" >> /\ message = << "a", "+", "b", "+", "c", "+", "1", "2" >> ->
         "DOffdsZrZCaD+paTLwyoiqmZYMc="
    [] key = << "s" >> /\ message = << "a", "+", "c", "+", "1" >> ->
         "Yo/tW5kBqq10vj2RZSfFP3ukVgY="
    [] key = << "s" >> /\ message = << "a", "+", "c", "+", "1", "2" >> ->
         "L4p++ztzi67gof9t9ESyukqsftI="
    [] key = << "s" >> /\ message = << "n", "+", "b", "+", "c", "+", "1" >> ->
         "GHMzXGpF9mzTvdVZ3iz9+BCRFiI="
    [] key = << "s" >> /\ message = << "n", "+", "b", "+", "c", "+", "1", "2" >> ->
         "zDmdQqCLVfzl1jthHh5lJiE4emU="
    [] key = << "s" >> /\ message = << "n", "+", "c", "+", "1" >> ->
         "xzyaHABcfgzfL0GUcKqPEP6AG5E="
    [] key = << "s" >> /\ message = << "n", "+", "c", "+", "1", "2" >> ->
         "RHDZjNNBdy/PAGp4rUQ8+sOwqqM="
    [] key = << "t" >> /\ message = << "a", "+", "b", "+", "b", "+", "c", "+", "1" >> ->
         "U3sbdUbpOCqjqjbZQ6t1iBz+9Bs="
    [] key = << "t" >> /\ message = << "a", "+", "b", "+", "b", "+", "c", "+", "1", "2" >> ->
         "ZoXo3D1xxUj9FbsKvfxt/JGSxDg="
    [] key = << "t" >> /\ message = << "a", "+", "b", "+", "c", "+", "1" >> ->
         "ZzwjZtiynHqg0eK9PR6IJehw65E="
    [] key = << "t" >> /\ message = << "a", "+", "b", "+", "c", "+", "1", "2" >> ->
         "oKI6mnwVjedvZUWn+TI5Y/5qocc="
    [] key = << "t" >> /\ message = << "a", "+", "c", "+", "1" >> ->
         "+yDkzAGAg11Y5zGa4BpD8OU8V2U="
    [] key = << "t" >> /\ message = << "a", "+", "c", "+", "1", "2" >> ->
         "fnstSQZ2hZLcWm+b1JImSHSOWoI="
    [] key = << "t" >> /\ message = << "n", "+", "b", "+", "c", "+", "1" >> ->
         "Z+1OfEVRgBjxRQQfec/wVj1h5B0="
    [] key = << "t" >> /\ message = << "n", "+", "b", "+", "c", "+", "1", "2" >> ->
         "yy3pf07kEzdhCsd/aaEGZdPF+b8="
    [] key = << "t" >> /\ message = << "n", "+", "c", "+", "1" >> ->
         "1cMMxb3NrCDDrZJbLbeh3k0FaiY="
    [] key = << "t" >> /\ message = << "n", "+", "c", "+", "1", "2" >> ->
         "Ex2VgTIYfqH60L43Goh9JGxp8YQ="

\* header: the message that is signed
SignedMessage(g, timestamp) == g.namespace \o << "+" >> \o g.group \o << "+" >> \o timestamp

\* mutant of header: the timeStamp header is taken from a later clock reading
headerLateStamp(g, now) ==
  [ SpasAccessKey |-> g.access_key,
    timeStamp |-> ToDecimal(now + 1),
    SpasSignature |-> Base64HmacSha1(g.secret_key, SignedMessage(g, ToDecimal(now))),
    longPullingTimeout |-> "30000" ]

\* header: the four headers put on every request, at the clock reading now
header(g, now) ==
  LET timestamp == ToDecimal(now)
      signature == Base64HmacSha1(g.secret_key, SignedMessage(g, timestamp))
  IN  [ SpasAccessKey |-> g.access_key,
        timeStamp |-> timestamp,
        SpasSignature |-> signature,
        longPullingTimeout |-> "30000" ]

(* ------------------------------ state --------------------------------- *)

VARIABLES
  phase,          \* Acm::new: "new_wait", "new_resp", then "ready" or "failed"
  ids,            \* the ids argument of Acm::new
  newResp,        \* the address server's answer to Acm::new
  newResult,      \* what Acm::new returned
  acm_server,     \* Acm.acm_server: the stored address
  current_config, \* Acm.current_config: id -> md5 (the Entry Table)
  iterOrder,      \* the order in which current_config.iter() yields the keys
  addrLock,       \* holder of the acm_server mutex, 0 when free
  md5Lock,        \* holder of each entry's mutex, 0 when free
  pc,             \* each task's position
  url,            \* add_listener / get_config: the address formatted into the url
  message,        \* encode_acm_entries: the message built so far
  encPos,         \* encode_acm_entries: position in the iteration
  req,            \* the last request each task sent
  resp,           \* the last response each task received
  listened,       \* what add_listener returned to wait_for_new_config
  scanned,        \* decode_acm_entry: number of records the scan looked at
  resolved,       \* refresh_acm_server: the address get_acm_server returned
  result,         \* what the public method returned to the caller
  serverContent,  \* the config server's current body of each id
  dirty,          \* the server content changed since the running poll began
  snapshot,       \* the Entry Table as it was when wait_for_new_config was entered
  polls,          \* wait_for_new_config: long-polls sent in the running iteration of the loop
  unfetched,      \* the last id whose get_config failed and is not fetched since, with its md5
  held,           \* encode_acm_entries: the md5s each entry has held since the pass began
  signed          \* the headers the signer produced, with the group and clock it was given

vars == << phase, ids, newResp, newResult, acm_server, current_config, iterOrder,
           addrLock, md5Lock, pc, url, message, encPos, req, resp, listened,
           scanned, resolved, result, serverContent, dirty, snapshot, polls,
           unfetched, held, signed >>


(* --------------------------- the wire codec --------------------------- *)

\* the separators decode_acm_entry splits on: the three characters %01 and %02
PCT01 == << "%", "0", "1" >>
PCT02 == << "%", "0", "2" >>

\* mutant of EncodeEntry: the md5 is written after the namespace
EncodeEntryMd5Last(id, md5) ==
  id \o << STX >> \o group.group \o << STX >> \o group.namespace \o << STX >> \o md5 \o << SOH >>

\* mutant of EncodeEntry: the md5 field is left empty
EncodeEntryNoMd5(id, md5) ==
  id \o << STX >> \o group.group \o << STX >> \o << STX >> \o group.namespace \o << SOH >>

\* encode_acm_entries, one turn of its loop: the record of one entry
EncodeEntry(id, md5) ==
  id \o << STX >> \o group.group \o << STX >> \o md5 \o << STX >> \o group.namespace \o << SOH >>

\* encode_acm_entries over a table that does not change during the pass
encode_acm_entries(cfg, order) ==
  Concat([ k \in 1..Len(order) |-> EncodeEntry(order[k], cfg[order[k]]) ])

\* mutant of EntryPasses: a record has four fields, as in the request
EntryPassesFour(cfg, config) ==
  LET id_group_namespace == Split(config, PCT02)
  IN  /\ Len(id_group_namespace) = 4
      /\ id_group_namespace[1] \in DOMAIN cfg
      /\ id_group_namespace[2] = group.group
      /\ id_group_namespace[4] = group.namespace

\* mutant of EntryPasses: the id is not looked up in the table
EntryPassesAnyId(cfg, config) ==
  LET id_group_namespace == Split(config, PCT02)
  IN  /\ Len(id_group_namespace) = 3
      /\ id_group_namespace[2] = group.group
      /\ id_group_namespace[3] = group.namespace

\* decode_acm_entry, the checks of one record: it names an entry of this instance
EntryPasses(cfg, config) ==
  LET id_group_namespace == Split(config, PCT02)
  IN  /\ Len(id_group_namespace) = 3
      /\ id_group_namespace[1] \in DOMAIN cfg
      /\ id_group_namespace[2] = group.group
      /\ id_group_namespace[3] = group.namespace

\* the id field of a record
IdOf(config) == Split(config, PCT02)[1]

RECURSIVE DecodeFromAbort(_, _, _)
\* mutant of DecodeFrom: a record that fails a check ends the scan
DecodeFromAbort(cfg, configs, i) ==
  IF i > Len(configs) THEN [ id |-> None, scanned |-> Len(configs) ]
  ELSE IF EntryPasses(cfg, configs[i])
       THEN [ id |-> Some(IdOf(configs[i])), scanned |-> i ]
       ELSE [ id |-> None, scanned |-> i ]

RECURSIVE DecodeFrom(_, _, _)
\* decode_acm_entry, its loop from record i on: a record that fails a check is
\* skipped (continue), the first that passes is returned
DecodeFrom(cfg, configs, i) ==
  IF i > Len(configs) THEN [ id |-> None, scanned |-> Len(configs) ]
  ELSE IF EntryPasses(cfg, configs[i])
       THEN [ id |-> Some(IdOf(configs[i])), scanned |-> i ]
       ELSE DecodeFrom(cfg, configs, i + 1)

decode_acm_entry(cfg, text) == DecodeFrom(cfg, Split(text, PCT01), 1)

\* add_listener, its last expression: an empty response is None without decoding
ListenResult(cfg, text) ==
  IF text = << >> THEN [ id |-> None, scanned |-> 0 ] ELSE decode_acm_entry(cfg, text)

(* -------------------------- results and errors ------------------------ *)

NoResult == [ kind |-> "none", id |-> << >>, bytes |-> << >>, err |-> "", msg |-> << >> ]
Ok(id, bytes) == [ kind |-> "ok", id |-> id, bytes |-> bytes, err |-> "", msg |-> << >> ]
\* Error::ReqwestError, from a failed send, a non-success status or a failed body read
ReqwestError == [ kind |-> "err", id |-> << >>, bytes |-> << >>, err |-> "ReqwestError", msg |-> << >> ]
\* Error::Custom(message)
Custom(msg) == [ kind |-> "err", id |-> << >>, bytes |-> << >>, err |-> "Custom", msg |-> msg ]

NoReq == [ method |-> "none", addr |-> NoAddr, body |-> << >>, dataId |-> << >> ]
NoResp == [ kind |-> "none", body |-> << >> ]
Failure == [ kind |-> "err", body |-> << >> ]
Success(body) == [ kind |-> "ok", body |-> body ]

(* --------------------------- server locator --------------------------- *)

\* mutant of get_acm_server: the whole text is parsed, not its first line
get_acm_server_whole(response) ==
  IF response.kind = "err" THEN [ res |-> ReqwestError, addr |-> NoAddr ]
  ELSE LET address == response.body
           parsed == ParseIpv4(address)
       IN  IF parsed = NoAddr
           THEN [ res |-> Custom(address \o << " is not a valid ipv4 address" >>), addr |-> NoAddr ]
           ELSE [ res |-> Ok(<< >>, << >>), addr |-> parsed ]

\* get_acm_server, after the request: first line of the text, parsed
get_acm_server(response) ==
  IF response.kind = "err" THEN [ res |-> ReqwestError, addr |-> NoAddr ]
  ELSE LET address == Split(response.body, << LF >>)[1]
           parsed == ParseIpv4(address)
       IN  IF parsed = NoAddr
           THEN [ res |-> Custom(address \o << " is not a valid ipv4 address" >>), addr |-> NoAddr ]
           ELSE [ res |-> Ok(<< >>, << >>), addr |-> parsed ]

(* --------------------------- the environment -------------------------- *)

\* the record the config server writes for a changed entry
ChangeRecord(id, g, n) == id \o PCT02 \o g \o PCT02 \o n \o PCT01

\* the same record written with the control characters themselves
ControlRecord(id, g, n) == id \o << STX >> \o g \o << STX >> \o n \o << SOH >>

A == << "a" >>
B == << "b" >>
RecA == ChangeRecord(A, group.group, group.namespace)
RecB == ChangeRecord(B, group.group, group.namespace)

\* the texts a long-poll may be answered with
ResponseTexts ==
  { << >>,
    RecA, RecB, RecA \o RecB, RecB \o RecA,
    << "x" >> \o PCT01 \o RecA,
    ChangeRecord(<< "c" >>, group.group, group.namespace) \o RecB,
    ChangeRecord(A, << "x" >>, group.namespace) \o RecB,
    ChangeRecord(A, group.group, << "x" >>),
    A \o PCT02 \o group.group \o PCT02 \o group.namespace,
    RecA \o << "x" >>,
    ControlRecord(A, group.group, group.namespace),
    << "x" >> }

\* the texts the address server may answer with
AddrTexts ==
  { << "1", ".", "2", ".", "3", ".", "4", LF, "x" >>,
    << "5", ".", "6", ".", "7", ".", "8" >>,
    << "n", "o", "t", "-", "a", "n", "-", "i", "p" >>,
    << "2", "5", "6", ".", "1", ".", "1", ".", "1" >>,
    << >> }

AddrResponses == { Failure } \cup { Success(x) : x \in AddrTexts }

\* a config server that reports an entry exactly when the probed md5 differs
\* from the md5 of the entry's current body
HonestPoll(body) ==
  LET records == Split(body, << SOH >>)
      fields(k) == Split(records[k], << STX >>)
      changed(k) == /\ Len(fields(k)) = 4
                    /\ fields(k)[1] \in DOMAIN serverContent
                    /\ fields(k)[3] # Md5Hex(serverContent[fields(k)[1]])
  IN  Concat([ k \in 1..Len(records) |->
                 IF changed(k) THEN ChangeRecord(fields(k)[1], fields(k)[2], fields(k)[4])
                 ELSE << >> ])

(* ------------------------------- Init --------------------------------- *)

NoTable == [ k \in {} |-> << >> ]

\* mutant of InsertAll: only the first id is inserted
InsertFirst(table, v) ==
  IF v = << >> THEN table ELSE [ k \in DOMAIN table \cup { Head(v) } |-> << >> ]

RECURSIVE InsertAll(_, _)
\* Acm::new, its loop: current_config.insert(id, Mutex::new("")) for each id
InsertAll(table, v) ==
  IF v = << >> THEN table
  ELSE InsertAll([ k \in DOMAIN table \cup { Head(v) } |->
                     IF k = Head(v) THEN << >> ELSE table[k] ], Tail(v))

\* the orders a HashMap may iterate a key set in
Orders(keys) ==
  { o \in [ 1..Cardinality(keys) -> keys ] : \A i, j \in DOMAIN o : i # j => o[i] # o[j] }

Idle == [ t \in Tasks |-> "idle" ]

\* the requests whose headers are compared
Signings == 1..NumSignings

\* no get_config has failed, or its id is fetched since
NoUnfetched == [ id |-> << >>, md5 |-> << >> ]

\* no header produced yet
NoSigned == [ group |-> << >>, now |-> 0, headers |-> << >> ]

Init ==
  /\ phase = "new_wait"
  /\ ids \in IdVectors
  /\ newResp = NoResp
  /\ newResult = NoResult
  /\ acm_server = NoAddr
  /\ current_config = NoTable
  /\ iterOrder = << >>
  /\ addrLock = 0
  /\ md5Lock = NoTable
  /\ pc = Idle
  /\ url = [ t \in Tasks |-> NoAddr ]
  /\ message = [ t \in Tasks |-> << >> ]
  /\ encPos = [ t \in Tasks |-> 0 ]
  /\ req = [ t \in Tasks |-> NoReq ]
  /\ resp = [ t \in Tasks |-> NoResp ]
  /\ listened = [ t \in Tasks |-> None ]
  /\ scanned = [ t \in Tasks |-> 0 ]
  /\ resolved = [ t \in Tasks |-> NoAddr ]
  /\ result = [ t \in Tasks |-> NoResult ]
  /\ serverContent = [ id \in IdPool |-> X1 ]
  /\ dirty = [ t \in Tasks |-> FALSE ]
  /\ snapshot = [ t \in Tasks |-> NoTable ]
  /\ polls = [ t \in Tasks |-> 0 ]
  /\ unfetched = NoUnfetched
  /\ held = [ t \in Tasks |-> NoTable ]
  /\ signed = [ i \in Signings |-> NoSigned ]

(* ------------------------------ Acm::new ------------------------------ *)

\* the address server answers the request of Acm::new
NewRespond ==
  /\ phase = "new_wait"
  /\ \E r \in AddrResponses : newResp' = r
  /\ phase' = "new_resp"
  /\ UNCHANGED << ids, newResult, acm_server, current_config, iterOrder, addrLock,
                 md5Lock, pc, url, message, encPos, req, resp, listened, scanned,
                 resolved, result, serverContent, dirty, snapshot, polls, unfetched,
                 held, signed >>

\* Acm::new after get_acm_server: fail, or build the instance
NewHandle ==
  /\ phase = "new_resp"
  /\ LET got == get_acm_server(newResp)
     IN  IF got.res.kind = "err"
         THEN /\ phase' = "failed"
              /\ newResult' = got.res
              /\ UNCHANGED << acm_server, current_config, iterOrder, md5Lock >>
         ELSE /\ phase' = "ready"
              /\ newResult' = got.res
              /\ acm_server' = got.addr
              /\ current_config' = InsertAll(NoTable, ids)
              /\ iterOrder' \in Orders(DOMAIN InsertAll(NoTable, ids))
              /\ md5Lock' = [ k \in DOMAIN InsertAll(NoTable, ids) |-> 0 ]
  /\ UNCHANGED << ids, newResp, addrLock, pc, url, message, encPos, req, resp,
                 listened, scanned, resolved, result, serverContent, dirty, snapshot,
                 polls, unfetched, held, signed >>

(* ------------------------- wait_for_new_config ------------------------ *)

WaitPcs == { "al_lock", "al_url", "enc_lock", "enc_read", "al_wait", "al_resp",
             "wf_match", "gc_lock", "gc_url", "gc_wait", "gc_resp", "um_lock",
             "um_write" }

\* a caller enters wait_for_new_config
CallWait(t) ==
  /\ phase = "ready"
  /\ pc[t] = "idle"
  /\ snapshot' = [snapshot EXCEPT ![t] = current_config]
  /\ polls' = [polls EXCEPT ![t] = 0]
  /\ pc' = [pc EXCEPT ![t] = "al_lock"]
  /\ UNCHANGED << phase, ids, newResp, newResult, acm_server, current_config,
                 iterOrder, addrLock, md5Lock, url, message, encPos, req, resp,
                 listened, scanned, resolved, result, serverContent, dirty, unfetched,
                 held, signed >>

\* add_listener: self.acm_server.lock()
AlLockAddr(t) ==
  /\ pc[t] = "al_lock"
  /\ addrLock = 0
  /\ addrLock' = t
  /\ dirty' = [dirty EXCEPT ![t] = FALSE]
  /\ pc' = [pc EXCEPT ![t] = "al_url"]
  /\ UNCHANGED << phase, ids, newResp, newResult, acm_server, current_config,
                 iterOrder, md5Lock, url, message, encPos, req, resp, listened,
                 scanned, resolved, result, serverContent, snapshot, polls, unfetched,
                 held, signed >>

\* mutant of AlUrl: the guard of the address lives on to the end of add_listener
AlUrlKeepsGuard(t) ==
  /\ pc[t] = "al_url"
  /\ url' = [url EXCEPT ![t] = acm_server]
  /\ message' = [message EXCEPT ![t] = << >>]
  /\ encPos' = [encPos EXCEPT ![t] = 1]
  /\ held' = [held EXCEPT ![t] = [ k \in DOMAIN current_config |-> { current_config[k] } ]]
  /\ pc' = [pc EXCEPT ![t] = "enc_lock"]
  /\ UNCHANGED << phase, ids, newResp, newResult, acm_server, current_config,
                 iterOrder, addrLock, md5Lock, req, resp, listened, scanned, resolved,
                 result, serverContent, dirty, snapshot, polls, unfetched, signed >>

\* add_listener: format the url from the locked address, drop the guard
AlUrl(t) ==
  /\ pc[t] = "al_url"
  /\ url' = [url EXCEPT ![t] = acm_server]
  /\ addrLock' = 0
  /\ message' = [message EXCEPT ![t] = << >>]
  /\ encPos' = [encPos EXCEPT ![t] = 1]
  /\ held' = [held EXCEPT ![t] = [ k \in DOMAIN current_config |-> { current_config[k] } ]]
  /\ pc' = [pc EXCEPT ![t] = "enc_lock"]
  /\ UNCHANGED << phase, ids, newResp, newResult, acm_server, current_config,
                 iterOrder, md5Lock, req, resp, listened, scanned, resolved, result,
                 serverContent, dirty, snapshot, polls, unfetched, signed >>

\* encode_acm_entries: md5.lock() of the next entry of the iteration
EncLock(t) ==
  /\ pc[t] = "enc_lock"
  /\ encPos[t] <= Len(iterOrder)
  /\ md5Lock[iterOrder[encPos[t]]] = 0
  /\ md5Lock' = [md5Lock EXCEPT ![iterOrder[encPos[t]]] = t]
  /\ pc' = [pc EXCEPT ![t] = "enc_read"]
  /\ UNCHANGED << phase, ids, newResp, newResult, acm_server, current_config,
                 iterOrder, addrLock, url, message, encPos, req, resp, listened,
                 scanned, resolved, result, serverContent, dirty, snapshot, polls,
                 unfetched, held, signed >>

\* mutant of EncRead: the record carries the md5 the entry held when the call began
EncReadStale(t) ==
  /\ pc[t] = "enc_read"
  /\ LET id == iterOrder[encPos[t]]
     IN  /\ message' = [message EXCEPT ![t] = @ \o EncodeEntry(id, snapshot[t][id])]
         /\ md5Lock' = [md5Lock EXCEPT ![id] = 0]
  /\ encPos' = [encPos EXCEPT ![t] = @ + 1]
  /\ pc' = [pc EXCEPT ![t] = "enc_lock"]
  /\ UNCHANGED << phase, ids, newResp, newResult, acm_server, current_config,
                 iterOrder, addrLock, url, req, resp, listened, scanned, resolved,
                 result, serverContent, dirty, snapshot, polls, unfetched, held,
                 signed >>

\* encode_acm_entries: append the entry's record, drop the guard
EncRead(t) ==
  /\ pc[t] = "enc_read"
  /\ LET id == iterOrder[encPos[t]]
     IN  /\ message' = [message EXCEPT ![t] = @ \o EncodeEntry(id, current_config[id])]
         /\ md5Lock' = [md5Lock EXCEPT ![id] = 0]
  /\ encPos' = [encPos EXCEPT ![t] = @ + 1]
  /\ pc' = [pc EXCEPT ![t] = "enc_lock"]
  /\ UNCHANGED << phase, ids, newResp, newResult, acm_server, current_config,
                 iterOrder, addrLock, url, req, resp, listened, scanned, resolved,
                 result, serverContent, dirty, snapshot, polls, unfetched, held,
                 signed >>

\* mutant of AlSend: the address is read again when the request is sent
AlSendLate(t) ==
  /\ pc[t] = "enc_lock"
  /\ encPos[t] > Len(iterOrder)
  /\ req' = [req EXCEPT ![t] = [ method |-> "POST", addr |-> acm_server,
                                  body |-> message[t], dataId |-> << >> ]]
  /\ resp' = [resp EXCEPT ![t] = NoResp]
  /\ url' = [url EXCEPT ![t] = NoAddr]
  /\ message' = [message EXCEPT ![t] = << >>]
  /\ encPos' = [encPos EXCEPT ![t] = 0]
  /\ polls' = [polls EXCEPT ![t] = @ + 1]
  /\ held' = [held EXCEPT ![t] = NoTable]
  /\ pc' = [pc EXCEPT ![t] = "al_wait"]
  /\ UNCHANGED << phase, ids, newResp, newResult, acm_server, current_config,
                 iterOrder, addrLock, md5Lock, listened, scanned, resolved, result,
                 serverContent, dirty, snapshot, unfetched, signed >>

\* add_listener: the iteration is over, send the POST
AlSend(t) ==
  /\ pc[t] = "enc_lock"
  /\ encPos[t] > Len(iterOrder)
  /\ req' = [req EXCEPT ![t] = [ method |-> "POST", addr |-> url[t],
                                  body |-> message[t], dataId |-> << >> ]]
  /\ resp' = [resp EXCEPT ![t] = NoResp]
  /\ url' = [url EXCEPT ![t] = NoAddr]
  /\ message' = [message EXCEPT ![t] = << >>]
  /\ encPos' = [encPos EXCEPT ![t] = 0]
  /\ polls' = [polls EXCEPT ![t] = @ + 1]
  /\ held' = [held EXCEPT ![t] = NoTable]
  /\ pc' = [pc EXCEPT ![t] = "al_wait"]
  /\ UNCHANGED << phase, ids, newResp, newResult, acm_server, current_config,
                 iterOrder, addrLock, md5Lock, listened, scanned, resolved, result,
                 serverContent, dirty, snapshot, unfetched, signed >>

\* the long-poll ends: a failure (transport, timeout, status) or any text
AlRespond(t) ==
  /\ pc[t] = "al_wait"
  /\ \E r \in { Failure } \cup { Success(x) : x \in ResponseTexts } :
       resp' = [resp EXCEPT ![t] = r]
  /\ pc' = [pc EXCEPT ![t] = "al_resp"]
  /\ UNCHANGED << phase, ids, newResp, newResult, acm_server, current_config,
                 iterOrder, addrLock, md5Lock, url, message, encPos, req, listened,
                 scanned, resolved, result, serverContent, dirty, snapshot, polls,
                 unfetched, held, signed >>

\* the long-poll ends: a failure, no change, or the record of a or of b
AlRespondFew(t) ==
  /\ pc[t] = "al_wait"
  /\ \E r \in { Failure, Success(<< >>), Success(RecA), Success(RecB) } :
       resp' = [resp EXCEPT ![t] = r]
  /\ pc' = [pc EXCEPT ![t] = "al_resp"]
  /\ UNCHANGED << phase, ids, newResp, newResult, acm_server, current_config,
                 iterOrder, addrLock, md5Lock, url, message, encPos, req, listened,
                 scanned, resolved, result, serverContent, dirty, snapshot, polls,
                 unfetched, held, signed >>

\* the long-poll ends, answered by the honest config server
AlRespondHonest(t) ==
  /\ pc[t] = "al_wait"
  /\ \E r \in { Failure, Success(HonestPoll(req[t].body)) } :
       resp' = [resp EXCEPT ![t] = r]
  /\ pc' = [pc EXCEPT ![t] = "al_resp"]
  /\ UNCHANGED << phase, ids, newResp, newResult, acm_server, current_config,
                 iterOrder, addrLock, md5Lock, url, message, encPos, req, listened,
                 scanned, resolved, result, serverContent, dirty, snapshot, polls,
                 unfetched, held, signed >>

\* a record of the id c, which no instance of the model tracks, then the record of a
RecCA == ChangeRecord(<< "c" >>, group.group, group.namespace) \o RecA

\* the long-poll ends with success: no change, the record of a or of b, or
\* a record of an unknown id followed by the record of a
AlAnswer(t) ==
  /\ pc[t] = "al_wait"
  /\ \E r \in { Success(<< >>), Success(RecA), Success(RecB), Success(RecCA) } :
       resp' = [resp EXCEPT ![t] = r]
  /\ pc' = [pc EXCEPT ![t] = "al_resp"]
  /\ UNCHANGED << phase, ids, newResp, newResult, acm_server, current_config,
                 iterOrder, addrLock, md5Lock, url, message, encPos, req, listened,
                 scanned, resolved, result, serverContent, dirty, snapshot, polls,
                 unfetched, held, signed >>

\* the long-poll ends with the record of a
AlReport(t) ==
  /\ pc[t] = "al_wait"
  /\ resp' = [resp EXCEPT ![t] = Success(RecA)]
  /\ pc' = [pc EXCEPT ![t] = "al_resp"]
  /\ UNCHANGED << phase, ids, newResp, newResult, acm_server, current_config,
                 iterOrder, addrLock, md5Lock, url, message, encPos, req, listened,
                 scanned, resolved, result, serverContent, dirty, snapshot, polls,
                 unfetched, held, signed >>

\* mutant of AlHandle: a failed long-poll is sent again
AlHandleRetries(t) ==
  /\ pc[t] = "al_resp"
  /\ IF resp[t].kind = "err"
     THEN /\ pc' = [pc EXCEPT ![t] = "al_lock"]
          /\ polls' = [polls EXCEPT ![t] = 0]
          /\ UNCHANGED << result, listened, scanned >>
     ELSE /\ listened' = [listened EXCEPT ![t] = ListenResult(current_config, resp[t].body).id]
          /\ scanned' = [scanned EXCEPT ![t] = ListenResult(current_config, resp[t].body).scanned]
          /\ pc' = [pc EXCEPT ![t] = "wf_match"]
          /\ UNCHANGED << result, polls >>
  /\ UNCHANGED << phase, ids, newResp, newResult, acm_server, current_config,
                 iterOrder, addrLock, md5Lock, url, message, encPos, req, resp,
                 resolved, serverContent, dirty, snapshot, unfetched, held, signed >>

\* mutant of AlHandle: a text without any three-field record is an error
AlHandleProtocolError(t) ==
  /\ pc[t] = "al_resp"
  /\ IF resp[t].kind = "err"
     THEN /\ result' = [result EXCEPT ![t] = ReqwestError]
          /\ pc' = [pc EXCEPT ![t] = "done"]
          /\ UNCHANGED << listened, scanned >>
     ELSE IF /\ resp[t].body # << >>
             /\ \A k \in DOMAIN Split(resp[t].body, PCT01) :
                  Len(Split(Split(resp[t].body, PCT01)[k], PCT02)) # 3
     THEN /\ result' = [result EXCEPT ![t] = Custom(resp[t].body)]
          /\ pc' = [pc EXCEPT ![t] = "done"]
          /\ UNCHANGED << listened, scanned >>
     ELSE /\ listened' = [listened EXCEPT ![t] = ListenResult(current_config, resp[t].body).id]
          /\ scanned' = [scanned EXCEPT ![t] = ListenResult(current_config, resp[t].body).scanned]
          /\ pc' = [pc EXCEPT ![t] = "wf_match"]
          /\ UNCHANGED result
  /\ UNCHANGED << phase, ids, newResp, newResult, acm_server, current_config,
                 iterOrder, addrLock, md5Lock, url, message, encPos, req, resp,
                 resolved, serverContent, dirty, snapshot, polls, unfetched, held,
                 signed >>

\* mutant of AlHandle: decoding an id forgets the fingerprint stored for it
AlHandleForgets(t) ==
  /\ pc[t] = "al_resp"
  /\ IF resp[t].kind = "err"
     THEN /\ result' = [result EXCEPT ![t] = ReqwestError]
          /\ pc' = [pc EXCEPT ![t] = "done"]
          /\ UNCHANGED << listened, scanned, current_config >>
     ELSE /\ listened' = [listened EXCEPT ![t] = ListenResult(current_config, resp[t].body).id]
          /\ scanned' = [scanned EXCEPT ![t] = ListenResult(current_config, resp[t].body).scanned]
          /\ current_config' =
               IF ListenResult(current_config, resp[t].body).id = None THEN current_config
               ELSE [current_config EXCEPT ![ListenResult(current_config, resp[t].body).id[1]] = << >>]
          /\ pc' = [pc EXCEPT ![t] = "wf_match"]
          /\ UNCHANGED result
  /\ UNCHANGED << phase, ids, newResp, newResult, acm_server, iterOrder, addrLock,
                 md5Lock, url, message, encPos, req, resp, resolved, serverContent,
                 dirty, snapshot, polls, unfetched, held, signed >>

\* add_listener after the response: `?` on a failure, else decode
AlHandle(t) ==
  /\ pc[t] = "al_resp"
  /\ IF resp[t].kind = "err"
     THEN /\ result' = [result EXCEPT ![t] = ReqwestError]
          /\ pc' = [pc EXCEPT ![t] = "done"]
          /\ UNCHANGED << listened, scanned >>
     ELSE /\ listened' = [listened EXCEPT ![t] = ListenResult(current_config, resp[t].body).id]
          /\ scanned' = [scanned EXCEPT ![t] = ListenResult(current_config, resp[t].body).scanned]
          /\ pc' = [pc EXCEPT ![t] = "wf_match"]
          /\ UNCHANGED result
  /\ UNCHANGED << phase, ids, newResp, newResult, acm_server, current_config,
                 iterOrder, addrLock, md5Lock, url, message, encPos, req, resp,
                 resolved, serverContent, dirty, snapshot, polls, unfetched, held,
                 signed >>

\* mutant of WfMatch: None ends the loop with a value that is neither
WfMatchGivesUp(t) ==
  /\ pc[t] = "wf_match"
  /\ resp' = [resp EXCEPT ![t] = NoResp]
  /\ scanned' = [scanned EXCEPT ![t] = 0]
  /\ polls' = [polls EXCEPT ![t] = IF listened[t] = None THEN 0 ELSE @]
  /\ pc' = [pc EXCEPT ![t] = IF listened[t] = None THEN "done" ELSE "gc_lock"]
  /\ UNCHANGED << phase, ids, newResp, newResult, acm_server, current_config,
                 iterOrder, addrLock, md5Lock, url, message, encPos, req, listened,
                 resolved, result, serverContent, dirty, snapshot, unfetched, held,
                 signed >>

\* add_listener returns (its response text is dropped) and
\* wait_for_new_config matches on the value
WfMatch(t) ==
  /\ pc[t] = "wf_match"
  /\ resp' = [resp EXCEPT ![t] = NoResp]
  /\ scanned' = [scanned EXCEPT ![t] = 0]
  /\ polls' = [polls EXCEPT ![t] = IF listened[t] = None THEN 0 ELSE @]
  /\ pc' = [pc EXCEPT ![t] = IF listened[t] = None THEN "al_lock" ELSE "gc_lock"]
  /\ UNCHANGED << phase, ids, newResp, newResult, acm_server, current_config,
                 iterOrder, addrLock, md5Lock, url, message, encPos, req, listened,
                 resolved, result, serverContent, dirty, snapshot, unfetched, held,
                 signed >>

\* get_config: self.acm_server.lock()
GcLockAddr(t) ==
  /\ pc[t] = "gc_lock"
  /\ addrLock = 0
  /\ addrLock' = t
  /\ pc' = [pc EXCEPT ![t] = "gc_url"]
  /\ UNCHANGED << phase, ids, newResp, newResult, acm_server, current_config,
                 iterOrder, md5Lock, url, message, encPos, req, resp, listened,
                 scanned, resolved, result, serverContent, dirty, snapshot, polls,
                 unfetched, held, signed >>

\* get_config: format the url, drop the guard, send the GET
GcSend(t) ==
  /\ pc[t] = "gc_url"
  /\ addrLock' = 0
  /\ req' = [req EXCEPT ![t] = [ method |-> "GET", addr |-> acm_server,
                                  body |-> << >>, dataId |-> listened[t][1] ]]
  /\ resp' = [resp EXCEPT ![t] = NoResp]
  /\ pc' = [pc EXCEPT ![t] = "gc_wait"]
  /\ UNCHANGED << phase, ids, newResp, newResult, acm_server, current_config,
                 iterOrder, md5Lock, url, message, encPos, listened, scanned, resolved,
                 result, serverContent, dirty, snapshot, polls, unfetched, held,
                 signed >>

\* the GET ends: a failure or any body
GcRespond(t) ==
  /\ pc[t] = "gc_wait"
  /\ \E r \in { Failure } \cup { Success(x) : x \in Contents } :
       resp' = [resp EXCEPT ![t] = r]
  /\ pc' = [pc EXCEPT ![t] = "gc_resp"]
  /\ UNCHANGED << phase, ids, newResp, newResult, acm_server, current_config,
                 iterOrder, addrLock, md5Lock, url, message, encPos, req, listened,
                 scanned, resolved, result, serverContent, dirty, snapshot, polls,
                 unfetched, held, signed >>

\* the GET ends, answered by the honest config server
GcRespondHonest(t) ==
  /\ pc[t] = "gc_wait"
  /\ \E r \in { Failure, Success(serverContent[req[t].dataId]) } :
       resp' = [resp EXCEPT ![t] = r]
  /\ pc' = [pc EXCEPT ![t] = "gc_resp"]
  /\ UNCHANGED << phase, ids, newResp, newResult, acm_server, current_config,
                 iterOrder, addrLock, md5Lock, url, message, encPos, req, listened,
                 scanned, resolved, result, serverContent, dirty, snapshot, polls,
                 unfetched, held, signed >>

\* the GET ends with success
GcAnswer(t) ==
  /\ pc[t] = "gc_wait"
  /\ \E c \in Contents : resp' = [resp EXCEPT ![t] = Success(c)]
  /\ pc' = [pc EXCEPT ![t] = "gc_resp"]
  /\ UNCHANGED << phase, ids, newResp, newResult, acm_server, current_config,
                 iterOrder, addrLock, md5Lock, url, message, encPos, req, listened,
                 scanned, resolved, result, serverContent, dirty, snapshot, polls,
                 unfetched, held, signed >>

\* mutant of GcHandle: a failed fetch stores the md5 of the empty body
GcHandleAcknowledges(t) ==
  /\ pc[t] = "gc_resp"
  /\ IF resp[t].kind = "err"
     THEN /\ result' = [result EXCEPT ![t] = ReqwestError]
          /\ unfetched' = [ id |-> listened[t][1], md5 |-> current_config[listened[t][1]] ]
          /\ current_config' = [current_config EXCEPT ![listened[t][1]] = Md5Hex(<< >>)]
          /\ pc' = [pc EXCEPT ![t] = "done"]
     ELSE /\ pc' = [pc EXCEPT ![t] = "um_lock"]
          /\ UNCHANGED << result, unfetched, current_config >>
  /\ UNCHANGED << phase, ids, newResp, newResult, acm_server, iterOrder, addrLock,
                 md5Lock, url, message, encPos, req, resp, listened, scanned, resolved,
                 serverContent, dirty, snapshot, polls, held, signed >>

\* get_config after the response: `?` on a failure, else the bytes
GcHandle(t) ==
  /\ pc[t] = "gc_resp"
  /\ IF resp[t].kind = "err"
     THEN /\ result' = [result EXCEPT ![t] = ReqwestError]
          /\ unfetched' = [ id |-> listened[t][1], md5 |-> current_config[listened[t][1]] ]
          /\ pc' = [pc EXCEPT ![t] = "done"]
     ELSE /\ pc' = [pc EXCEPT ![t] = "um_lock"]
          /\ UNCHANGED << result, unfetched >>
  /\ UNCHANGED << phase, ids, newResp, newResult, acm_server, current_config,
                 iterOrder, addrLock, md5Lock, url, message, encPos, req, resp,
                 listened, scanned, resolved, serverContent, dirty, snapshot, polls,
                 held, signed >>

\* mutant of update_md5: the digest is stored in every entry
update_md5_all(table, id, bytes) == [ k \in DOMAIN table |-> Md5Hex(bytes) ]

\* update_md5: the new value of the table
update_md5(table, id, bytes) == [table EXCEPT ![id] = Md5Hex(bytes)]

\* update_md5: self.current_config.get(id).unwrap() panics on an id that is no
\* key; otherwise .lock()
UmLock(t) ==
  /\ pc[t] = "um_lock"
  /\ IF listened[t][1] \notin DOMAIN current_config
     THEN /\ pc' = [pc EXCEPT ![t] = "panicked"]
          /\ UNCHANGED md5Lock
     ELSE /\ md5Lock[listened[t][1]] = 0
          /\ md5Lock' = [md5Lock EXCEPT ![listened[t][1]] = t]
          /\ pc' = [pc EXCEPT ![t] = "um_write"]
  /\ UNCHANGED << phase, ids, newResp, newResult, acm_server, current_config,
                 iterOrder, addrLock, url, message, encPos, req, resp, listened,
                 scanned, resolved, result, serverContent, dirty, snapshot, polls,
                 unfetched, held, signed >>

\* mutant of UmWrite: the loop goes on after the update
UmWriteLoops(t) ==
  /\ pc[t] = "um_write"
  /\ current_config' = update_md5(current_config, listened[t][1], resp[t].body)
  /\ md5Lock' = [md5Lock EXCEPT ![listened[t][1]] = 0]
  /\ unfetched' = IF unfetched.id = listened[t][1] THEN NoUnfetched ELSE unfetched
  /\ held' = [ u \in Tasks |->
                IF pc[u] \in { "enc_lock", "enc_read" }
                THEN [held[u] EXCEPT ![listened[t][1]] = @ \cup { Md5Hex(resp[t].body) }]
                ELSE held[u] ]
  /\ polls' = [polls EXCEPT ![t] = 0]
  /\ pc' = [pc EXCEPT ![t] = "al_lock"]
  /\ UNCHANGED << phase, ids, newResp, newResult, acm_server, iterOrder, addrLock, url,
                 message, encPos, req, resp, listened, scanned, resolved, result,
                 serverContent, dirty, snapshot, signed >>

\* update_md5: store the digest, drop the guard; break Ok((id, config))
UmWrite(t) ==
  /\ pc[t] = "um_write"
  /\ current_config' = update_md5(current_config, listened[t][1], resp[t].body)
  /\ md5Lock' = [md5Lock EXCEPT ![listened[t][1]] = 0]
  /\ unfetched' = IF unfetched.id = listened[t][1] THEN NoUnfetched ELSE unfetched
  /\ held' = [ u \in Tasks |->
                IF pc[u] \in { "enc_lock", "enc_read" }
                THEN [held[u] EXCEPT ![listened[t][1]] = @ \cup { Md5Hex(resp[t].body) }]
                ELSE held[u] ]
  /\ result' = [result EXCEPT ![t] = Ok(listened[t][1], resp[t].body)]
  /\ pc' = [pc EXCEPT ![t] = "done"]
  /\ UNCHANGED << phase, ids, newResp, newResult, acm_server, iterOrder, addrLock, url,
                 message, encPos, req, resp, listened, scanned, resolved,
                 serverContent, dirty, snapshot, polls, signed >>

(* ------------------------- refresh_acm_server ------------------------- *)

\* a caller enters refresh_acm_server: get_acm_server sends its GET
CallRefresh(t) ==
  /\ phase = "ready"
  /\ pc[t] = "idle"
  /\ req' = [req EXCEPT ![t] = [ method |-> "RESOLVE", addr |-> NoAddr,
                                  body |-> << >>, dataId |-> << >> ]]
  /\ pc' = [pc EXCEPT ![t] = "rf_wait"]
  /\ UNCHANGED << phase, ids, newResp, newResult, acm_server, current_config,
                 iterOrder, addrLock, md5Lock, url, message, encPos, resp, listened,
                 scanned, resolved, result, serverContent, dirty, snapshot, polls,
                 unfetched, held, signed >>

\* the address server answers
RfRespond(t) ==
  /\ pc[t] = "rf_wait"
  /\ \E r \in AddrResponses : resp' = [resp EXCEPT ![t] = r]
  /\ pc' = [pc EXCEPT ![t] = "rf_resp"]
  /\ UNCHANGED << phase, ids, newResp, newResult, acm_server, current_config,
                 iterOrder, addrLock, md5Lock, url, message, encPos, req, listened,
                 scanned, resolved, result, serverContent, dirty, snapshot, polls,
                 unfetched, held, signed >>

\* the address server answers: a failure or one of two addresses
RfRespondFew(t) ==
  /\ pc[t] = "rf_wait"
  /\ \E r \in { Failure,
                 Success(<< "1", ".", "2", ".", "3", ".", "4", LF, "x" >>),
                 Success(<< "5", ".", "6", ".", "7", ".", "8" >>) } :
       resp' = [resp EXCEPT ![t] = r]
  /\ pc' = [pc EXCEPT ![t] = "rf_resp"]
  /\ UNCHANGED << phase, ids, newResp, newResult, acm_server, current_config,
                 iterOrder, addrLock, md5Lock, url, message, encPos, req, listened,
                 scanned, resolved, result, serverContent, dirty, snapshot, polls,
                 unfetched, held, signed >>

\* mutant of RfHandle: a failed resolution clears the stored address
RfHandleClears(t) ==
  /\ pc[t] = "rf_resp"
  /\ LET got == get_acm_server(resp[t])
     IN  IF got.res.kind = "err"
         THEN /\ result' = [result EXCEPT ![t] = got.res]
              /\ pc' = [pc EXCEPT ![t] = "done"]
              /\ acm_server' = NoAddr
              /\ UNCHANGED resolved
         ELSE /\ resolved' = [resolved EXCEPT ![t] = got.addr]
              /\ pc' = [pc EXCEPT ![t] = "rf_lock"]
              /\ UNCHANGED << result, acm_server >>
  /\ UNCHANGED << phase, ids, newResp, newResult, current_config, iterOrder, addrLock,
                 md5Lock, url, message, encPos, req, resp, listened, scanned,
                 serverContent, dirty, snapshot, polls, unfetched, held, signed >>

\* refresh_acm_server after get_acm_server: `?` on an error
RfHandle(t) ==
  /\ pc[t] = "rf_resp"
  /\ LET got == get_acm_server(resp[t])
     IN  IF got.res.kind = "err"
         THEN /\ result' = [result EXCEPT ![t] = got.res]
              /\ pc' = [pc EXCEPT ![t] = "done"]
              /\ UNCHANGED resolved
         ELSE /\ resolved' = [resolved EXCEPT ![t] = got.addr]
              /\ pc' = [pc EXCEPT ![t] = "rf_lock"]
              /\ UNCHANGED result
  /\ UNCHANGED << phase, ids, newResp, newResult, acm_server, current_config,
                 iterOrder, addrLock, md5Lock, url, message, encPos, req, resp,
                 listened, scanned, serverContent, dirty, snapshot, polls, unfetched,
                 held, signed >>

\* refresh_acm_server: self.acm_server.lock()
RfLock(t) ==
  /\ pc[t] = "rf_lock"
  /\ addrLock = 0
  /\ addrLock' = t
  /\ pc' = [pc EXCEPT ![t] = "rf_store"]
  /\ UNCHANGED << phase, ids, newResp, newResult, acm_server, current_config,
                 iterOrder, md5Lock, url, message, encPos, req, resp, listened,
                 scanned, resolved, result, serverContent, dirty, snapshot, polls,
                 unfetched, held, signed >>

\* refresh_acm_server: store the address, drop the guard, Ok(())
RfStore(t) ==
  /\ pc[t] = "rf_store"
  /\ acm_server' = resolved[t]
  /\ addrLock' = 0
  /\ result' = [result EXCEPT ![t] = Ok(<< >>, << >>)]
  /\ pc' = [pc EXCEPT ![t] = "done"]
  /\ UNCHANGED << phase, ids, newResp, newResult, current_config, iterOrder, md5Lock,
                 url, message, encPos, req, resp, listened, scanned, resolved,
                 serverContent, dirty, snapshot, polls, unfetched, held, signed >>

(* ------------------------------- header ------------------------------- *)

\* a request of an instance built with the group g is given its headers
Sign(i) ==
  /\ signed[i] = NoSigned
  /\ \E g \in AcmGroups, now \in Millis :
       signed' = [signed EXCEPT ![i] = [ group |-> g, now |-> now, headers |-> header(g, now) ]]
  /\ UNCHANGED << phase, ids, newResp, newResult, acm_server, current_config,
                 iterOrder, addrLock, md5Lock, pc, url, message, encPos, req, resp,
                 listened, scanned, resolved, result, serverContent, dirty, snapshot,
                 polls, unfetched, held >>

(* ------------------------------ callers ------------------------------- *)

\* the caller takes the value the method returned
Return(t) ==
  /\ pc[t] = "done"
  /\ pc' = [pc EXCEPT ![t] = "idle"]
  /\ url' = [url EXCEPT ![t] = NoAddr]
  /\ message' = [message EXCEPT ![t] = << >>]
  /\ encPos' = [encPos EXCEPT ![t] = 0]
  /\ req' = [req EXCEPT ![t] = NoReq]
  /\ resp' = [resp EXCEPT ![t] = NoResp]
  /\ listened' = [listened EXCEPT ![t] = None]
  /\ scanned' = [scanned EXCEPT ![t] = 0]
  /\ resolved' = [resolved EXCEPT ![t] = NoAddr]
  /\ result' = [result EXCEPT ![t] = NoResult]
  /\ dirty' = [dirty EXCEPT ![t] = FALSE]
  /\ snapshot' = [snapshot EXCEPT ![t] = NoTable]
  /\ polls' = [polls EXCEPT ![t] = 0]
  /\ UNCHANGED << phase, ids, newResp, newResult, acm_server, current_config,
                 iterOrder, addrLock, md5Lock, serverContent, unfetched, held, signed >>

\* the task is inside wait_for_new_config, or is being handed its value
InWaitCall(t) ==
  \/ pc[t] \in WaitPcs \cup { "panicked" }
  \/ pc[t] = "done" /\ req[t].method \in { "POST", "GET" }

\* the config of an entry changes on the server
ChangeContent ==
  /\ \E id \in IdPool, c \in Contents :
       /\ c # serverContent[id]
       /\ serverContent' = [serverContent EXCEPT ![id] = c]
  /\ dirty' = [ t \in Tasks |-> dirty[t] \/ InWaitCall(t) ]
  /\ UNCHANGED << phase, ids, newResp, newResult, acm_server, current_config,
                 iterOrder, addrLock, md5Lock, pc, url, message, encPos, req, resp,
                 listened, scanned, resolved, result, snapshot, polls, unfetched, held,
                 signed >>

\* no other task is inside wait_for_new_config
SoleWatcher(t) == \A u \in Tasks \ { t } : ~InWaitCall(u)

(* --------------------------- specifications --------------------------- *)

\* no other task is inside refresh_acm_server
SoleRefresher(t) == \A u \in Tasks \ { t } : pc[u] = "idle" \/ InWaitCall(u)

\* no other task is inside a method of the instance
SoleCaller(t) == \A u \in Tasks \ { t } : pc[u] = "idle"

\* the callers use the instance one call at a time, against any server
Next ==
  \/ NewRespond
  \/ NewHandle
  \/ \E t \in Tasks :
       \/ SoleCaller(t) /\ CallWait(t)
       \/ AlLockAddr(t)
       \/ AlUrl(t)
       \/ EncLock(t)
       \/ EncRead(t)
       \/ AlSend(t)
       \/ AlRespond(t)
       \/ AlHandle(t)
       \/ WfMatch(t)
       \/ GcLockAddr(t)
       \/ GcSend(t)
       \/ GcRespond(t)
       \/ GcHandle(t)
       \/ UmLock(t)
       \/ UmWrite(t)
       \/ SoleCaller(t) /\ CallRefresh(t)
       \/ RfRespond(t)
       \/ RfHandle(t)
       \/ RfLock(t)
       \/ RfStore(t)
       \/ Return(t)

Spec == Init /\ [][Next]_vars

\* watch loops against the honest config server, whose content may change
NextHonest ==
  \/ NewRespond
  \/ NewHandle
  \/ ChangeContent
  \/ \E t \in Tasks :
       \/ SoleWatcher(t) /\ CallWait(t)
       \/ AlLockAddr(t)
       \/ AlUrl(t)
       \/ EncLock(t)
       \/ EncRead(t)
       \/ AlSend(t)
       \/ AlRespondHonest(t)
       \/ AlHandle(t)
       \/ WfMatch(t)
       \/ GcLockAddr(t)
       \/ GcSend(t)
       \/ GcRespondHonest(t)
       \/ GcHandle(t)
       \/ UmLock(t)
       \/ UmWrite(t)
       \/ Return(t)

SpecHonest == Init /\ [][NextHonest]_vars

\* an instance built with the ids a and b
InitConc == Init /\ ids = << A, B >>

\* a watch loop and a refresh run concurrently
NextConc ==
  \/ NewRespond
  \/ NewHandle
  \/ \E t \in Tasks :
       \/ SoleWatcher(t) /\ CallWait(t)
       \/ AlLockAddr(t)
       \/ AlUrl(t)
       \/ EncLock(t)
       \/ EncRead(t)
       \/ AlSend(t)
       \/ AlRespondFew(t)
       \/ AlHandle(t)
       \/ WfMatch(t)
       \/ GcLockAddr(t)
       \/ GcSend(t)
       \/ GcRespond(t)
       \/ GcHandle(t)
       \/ UmLock(t)
       \/ UmWrite(t)
       \/ SoleRefresher(t) /\ CallRefresh(t)
       \/ RfRespondFew(t)
       \/ RfHandle(t)
       \/ RfLock(t)
       \/ RfStore(t)
       \/ Return(t)

SpecConc == InitConc /\ [][NextConc]_vars

\* the signer alone: requests of instances of any group, at any clock reading
NextSign == \E i \in Signings : Sign(i)

SpecSign == InitConc /\ [][NextSign]_vars

\* a step of the task inside wait_for_new_config
WatchStep(t) ==
  \/ AlLockAddr(t) \/ AlUrl(t) \/ EncLock(t) \/ EncRead(t) \/ AlSend(t) \/ AlHandle(t)
  \/ WfMatch(t) \/ GcLockAddr(t) \/ GcSend(t) \/ GcHandle(t) \/ UmLock(t) \/ UmWrite(t)

\* the config server answers a request of the task
AnswerStep(t) == AlAnswer(t) \/ GcAnswer(t)

\* a watch loop against a config server no request to which fails
NextLive ==
  \/ NewRespond
  \/ NewHandle
  \/ \E t \in Tasks :
       \/ SoleWatcher(t) /\ CallWait(t)
       \/ AlLockAddr(t)
       \/ AlUrl(t)
       \/ EncLock(t)
       \/ EncRead(t)
       \/ AlSend(t)
       \/ AlAnswer(t)
       \/ AlHandle(t)
       \/ WfMatch(t)
       \/ GcLockAddr(t)
       \/ GcSend(t)
       \/ GcAnswer(t)
       \/ GcHandle(t)
       \/ UmLock(t)
       \/ UmWrite(t)
       \/ Return(t)

\* the runtime keeps polling a task that can step, and every request is
\* answered (or timed out) in the end
Fairness == \A t \in Tasks : WF_vars(WatchStep(t)) /\ WF_vars(AnswerStep(t))

SpecLive == InitConc /\ [][NextLive]_vars /\ Fairness

\* the instance Acm::new builds from the address 1.2.3.4 and the ids a and b
InitBuilt ==
  /\ phase = "ready"
  /\ ids = << A, B >>
  /\ newResp = Success(<< "1", ".", "2", ".", "3", ".", "4" >>)
  /\ newResult = Ok(<< >>, << >>)
  /\ acm_server = << 1, 2, 3, 4 >>
  /\ current_config = InsertAll(NoTable, ids)
  /\ iterOrder \in Orders({ A, B })
  /\ addrLock = 0
  /\ md5Lock = [ k \in { A, B } |-> 0 ]
  /\ pc = Idle
  /\ url = [ t \in Tasks |-> NoAddr ]
  /\ message = [ t \in Tasks |-> << >> ]
  /\ encPos = [ t \in Tasks |-> 0 ]
  /\ req = [ t \in Tasks |-> NoReq ]
  /\ resp = [ t \in Tasks |-> NoResp ]
  /\ listened = [ t \in Tasks |-> None ]
  /\ scanned = [ t \in Tasks |-> 0 ]
  /\ resolved = [ t \in Tasks |-> NoAddr ]
  /\ result = [ t \in Tasks |-> NoResult ]
  /\ serverContent = [ id \in IdPool |-> X1 ]
  /\ dirty = [ t \in Tasks |-> FALSE ]
  /\ snapshot = [ t \in Tasks |-> NoTable ]
  /\ polls = [ t \in Tasks |-> 0 ]
  /\ unfetched = NoUnfetched
  /\ held = [ t \in Tasks |-> NoTable ]
  /\ signed = [ i \in Signings |-> NoSigned ]

\* at most one other task is inside a method of the instance
PairOnly(t) == Cardinality({ u \in Tasks \ { t } : pc[u] # "idle" }) <= 1

\* two callers at a time, of wait_for_new_config or refresh_acm_server in any
\* combination, against a config server that reports a change of a to every
\* long-poll and answers every request
NextRace ==
  \E t \in Tasks :
    \/ PairOnly(t) /\ CallWait(t)
    \/ AlLockAddr(t)
    \/ AlUrl(t)
    \/ EncLock(t)
    \/ EncRead(t)
    \/ AlSend(t)
    \/ AlReport(t)
    \/ AlHandle(t)
    \/ WfMatch(t)
    \/ GcLockAddr(t)
    \/ GcSend(t)
    \/ GcAnswer(t)
    \/ GcHandle(t)
    \/ UmLock(t)
    \/ UmWrite(t)
    \/ PairOnly(t) /\ CallRefresh(t)
    \/ RfRespondFew(t)
    \/ RfHandle(t)
    \/ RfLock(t)
    \/ RfStore(t)
    \/ Return(t)

SpecRace == InitBuilt /\ [][NextRace]_vars

(* ------------------------------- claims ------------------------------- *)

\* the task is being handed Ok((id, bytes)) by wait_for_new_config
ReturnsChange(t) ==
  pc[t] = "done" /\ InWaitCall(t) /\ result[t].kind = "ok"

\* C1: wait_for_new_config ends only with an error or with Ok((id, bytes)), where
\* id is what the most recent add_listener returned and bytes is the body of the
\* response to the get_config request for that id; when add_listener returns
\* None the next step is another add_listener, never a return.
C1_ReturnsChangeOrError ==
  /\ [](\A t \in Tasks :
          pc[t] = "done" /\ InWaitCall(t) =>
            \/ result[t].kind = "err"
            \/ /\ result[t].kind = "ok"
               /\ listened[t] = Some(result[t].id)
               /\ req[t].method = "GET"
               /\ req[t].dataId = result[t].id
               /\ resp[t] = Success(result[t].bytes))
  /\ [][\A t \in Tasks :
          pc[t] = "wf_match" /\ listened[t] = None /\ pc'[t] # pc[t] => pc'[t] = "al_lock"]_vars

\* C1 witness: wait_for_new_config hands its caller the change (a, x=2)
C1_Witness ==
  \E t \in Tasks : ReturnsChange(t) /\ result[t].id = A /\ result[t].bytes = X2

\* C2: when wait_for_new_config returns (id, bytes) the md5 stored for id is
\* md5_hex(bytes) and every other entry holds what it held when the call began.
C2_UpdatesOnlyReturnedId ==
  \A t \in Tasks :
    ReturnsChange(t) =>
      /\ current_config[result[t].id] = Md5Hex(result[t].bytes)
      /\ \A k \in DOMAIN current_config \ { result[t].id } :
           current_config[k] = snapshot[t][k]

\* C2 witness: ids = [a, b], a changed to x=1; md5(a) is the digest of x=1 and
\* md5(b) is still empty
C2_Witness ==
  \E t \in Tasks :
    /\ ReturnsChange(t)
    /\ ids = << A, B >>
    /\ result[t].id = A /\ result[t].bytes = X1
    /\ current_config[A] =
         << "a","2","5","5","5","1","2","f","9","d","6","1","a","6","7","7",
            "7","b","d","5","a","3","0","4","2","3","5","b","d","2","6","d" >>
    /\ current_config[B] = << >>

\* C3: a failed add-listener or get-config request ends wait_for_new_config with
\* that error: the failure is the last response of the call and no request
\* follows it; no step of wait_for_new_config resolves or changes the stored
\* server address.
C3_NoInternalRetry ==
  /\ [](\A t \in Tasks :
          InWaitCall(t) /\ resp[t].kind = "err" =>
            \/ pc[t] \in { "al_resp", "gc_resp" }
            \/ pc[t] = "done" /\ result[t] = ReqwestError)
  /\ [][\A t \in Tasks :
          pc[t] \in WaitPcs /\ pc'[t] # pc[t] =>
            /\ acm_server' = acm_server
            /\ pc'[t] \notin { "rf_wait", "rf_resp", "rf_lock", "rf_store" }
            /\ (resp[t].kind = "err" => req'[t] = req[t] /\ pc'[t] = "done")]_vars

\* C3 witness: the get-config request failed and the call returns the error
C3_Witness ==
  \E t \in Tasks :
    /\ pc[t] = "done" /\ result[t] = ReqwestError
    /\ req[t].method = "GET" /\ resp[t] = Failure

\* C4: a successful refresh stores the resolved address; a url is formatted from
\* the address stored at that moment; the request carries the address of its
\* url, and a request in flight keeps it whatever is stored meanwhile.
C4_RefreshAndRequests ==
  [][\A t \in Tasks :
       /\ (pc[t] = "rf_store" /\ pc'[t] = "done" =>
             /\ acm_server' = ParseIpv4(Split(resp[t].body, << LF >>)[1])
             /\ acm_server' # NoAddr)
       /\ (pc[t] = "al_url" /\ pc'[t] = "enc_lock" => url'[t] = acm_server)
       /\ (pc[t] \in { "enc_lock", "enc_read" } /\ pc'[t] \in { "enc_lock", "enc_read" } =>
             url'[t] = url[t])
       /\ (pc[t] = "enc_lock" /\ pc'[t] = "al_wait" => req'[t].addr = url[t])
       /\ (pc[t] = "gc_url" /\ pc'[t] = "gc_wait" => req'[t].addr = acm_server)
       /\ (pc[t] \in { "al_wait", "gc_wait" } /\ pc'[t] = pc[t] => req'[t] = req[t])]_vars

\* C4 witness: a refresh has stored another address while a long-poll built
\* before it is in flight to the old one
C4_Witness ==
  \E t, u \in Tasks :
    /\ pc[t] = "al_wait" /\ req[t].addr # acm_server
    /\ pc[u] = "done" /\ req[u].method = "RESOLVE" /\ result[u].kind = "ok"

\* C5: the keys of the Entry Table are the ids handed to Acm::new, duplicates
\* collapsed, in every state of the instance; every md5 is empty when Acm::new
\* returns.
C5_KeysFixed ==
  /\ [](phase = "ready" => DOMAIN current_config = Range(ids))
  /\ [](phase # "ready" => DOMAIN current_config = {})
  /\ [][phase # "ready" /\ phase' = "ready" =>
          \A k \in Range(ids) : current_config'[k] = << >>]_vars

\* C5 witness: ids = [a, a] gave the one key a, whose md5 has been updated
C5_Witness ==
  /\ ids = << A, A >>
  /\ DOMAIN current_config = { A }
  /\ current_config[A] # << >>

\* the orders of the non-empty subsets of a key set
SubsetOrders(keys) == UNION { Orders(S) : S \in (SUBSET keys) \ { {} } }

\* the response that echoes the entries of o with the separators %02 and %01
PctResponse(o) ==
  Concat([ k \in 1..Len(o) |-> ChangeRecord(o[k], group.group, group.namespace) ])

\* the response that echoes the entries of o with the characters U+0002, U+0001
ControlResponse(o) ==
  Concat([ k \in 1..Len(o) |-> ControlRecord(o[k], group.group, group.namespace) ])

\* C6 as stated: the response built with the control characters U+0002 and
\* U+0001 for a non-empty subset S of the tracked ids decodes to one id of S.
C6_ControlCharsDecode ==
  \A t \in Tasks :
    pc[t] = "wf_match" =>
      \A o \in SubsetOrders(DOMAIN current_config) :
        resp[t].body = ControlResponse(o) =>
          listened[t] # None /\ listened[t][1] \in Range(o)

\* C6 amended: the response built as id %02 group %02 namespace %01 (the
\* separators are the three-character texts) for a non-empty subset S of the
\* tracked ids decodes to exactly one id, and that id is in S.
C6_PercentTextDecode ==
  \A t \in Tasks :
    pc[t] = "wf_match" =>
      \A o \in SubsetOrders(DOMAIN current_config) :
        resp[t].body = PctResponse(o) =>
          Len(listened[t]) = 1 /\ listened[t][1] \in Range(o)

\* C6 witness: ids = [a, b], group1, ns1: a%02group1%02ns1%01 decoded to a
C6_Witness ==
  \E t \in Tasks :
    /\ pc[t] = "wf_match"
    /\ ids = << A, B >>
    /\ resp[t].body = << "a", "%", "0", "2", "g", "r", "o", "u", "p", "1",
                          "%", "0", "2", "n", "s", "1", "%", "0", "1" >>
    /\ listened[t] = Some(A)

\* the records decode_acm_entry obtains from a text
RecordsOf(text) == Split(text, PCT01)

\* C7: what add_listener returns is None or one id that is a key of the Entry
\* Table and stands in a record of the response with the configured group and
\* namespace; the id carried on to get_config and update_md5 is a key, so
\* update_md5 finds its entry (it never panics).
C7_DecodedIdIsTracked ==
  \A t \in Tasks :
    /\ pc[t] = "wf_match" =>
         \/ listened[t] = None
         \/ /\ Len(listened[t]) = 1
            /\ listened[t][1] \in DOMAIN current_config
            /\ \E k \in DOMAIN RecordsOf(resp[t].body) :
                 Split(RecordsOf(resp[t].body)[k], PCT02) =
                   << listened[t][1], group.group, group.namespace >>
    /\ pc[t] \in { "gc_lock", "gc_url", "gc_wait", "gc_resp", "um_lock", "um_write" } =>
         Len(listened[t]) = 1 /\ listened[t][1] \in DOMAIN current_config
    /\ pc[t] # "panicked"

\* C7 witness: the response names the unregistered id c before b; b is returned
C7_Witness ==
  \E t \in Tasks :
    /\ pc[t] = "wf_match"
    /\ resp[t].body = ChangeRecord(<< "c" >>, group.group, group.namespace) \o RecB
    /\ listened[t] = Some(B)

\* the three ways a record is skipped
Malformed(rec) == Len(Split(rec, PCT02)) # 3
UnknownId(rec) == Split(rec, PCT02)[1] \notin DOMAIN current_config
Mismatch(rec) ==
  Split(rec, PCT02)[2] # group.group \/ Split(rec, PCT02)[3] # group.namespace
Skipped(rec) == Malformed(rec) \/ UnknownId(rec) \/ Mismatch(rec)

\* C8: decode returns the id of the first record, in response order, that is
\* not skipped, having looked at no record after it, and None only when every
\* record is skipped.
C8_FirstValidRecord ==
  \A t \in Tasks :
    pc[t] = "wf_match" /\ resp[t].body # << >> =>
      LET recs == RecordsOf(resp[t].body)
          good == { k \in DOMAIN recs : ~Skipped(recs[k]) }
      IN  IF good = {} THEN listened[t] = None /\ scanned[t] = Len(recs)
          ELSE LET first == CHOOSE k \in good : \A j \in good : k <= j
               IN  /\ listened[t] = Some(Split(recs[first], PCT02)[1])
                   /\ scanned[t] = first

\* C8 witness: a record with another group precedes the record of b, which is
\* returned as the second record looked at
C8_Witness ==
  \E t \in Tasks :
    /\ pc[t] = "wf_match"
    /\ resp[t].body = ChangeRecord(A, << "x" >>, group.namespace) \o RecB
    /\ A \in DOMAIN current_config
    /\ listened[t] = Some(B) /\ scanned[t] = 2

\* the md5 field of the record of id in a probe message
ProbeMd5(probe, id) ==
  LET recs == Split(probe, << SOH >>)
      hits == { k \in DOMAIN recs : Len(Split(recs[k], << STX >>)) = 4
                                      /\ Split(recs[k], << STX >>)[1] = id }
  IN  IF hits = {} THEN << "absent" >>
      ELSE Split(recs[CHOOSE k \in hits : TRUE], << STX >>)[3]

\* every entry holds the md5 of the server's current body
Synced == \A k \in DOMAIN current_config : current_config[k] = Md5Hex(serverContent[k])

\* C9: after wait_for_new_config returned (id, bytes) the probe message carries
\* md5_hex(bytes) for id, and the probe sent is the encoding of the table;
\* against the honest server, a poll during which the content did not change
\* and whose table holds the md5 of every current body yields None; with one
\* tracked id that is the case right after a successful wait_for_new_config.
C9_SyncedPollYieldsNothing ==
  \A t \in Tasks :
    /\ ReturnsChange(t) =>
         ProbeMd5(encode_acm_entries(current_config, iterOrder), result[t].id)
           = Md5Hex(result[t].bytes)
    /\ pc[t] = "al_wait" => req[t].body = encode_acm_entries(current_config, iterOrder)
    /\ pc[t] = "wf_match" /\ Synced /\ ~dirty[t] => listened[t] = None
    /\ ReturnsChange(t) /\ ~dirty[t] /\ Cardinality(DOMAIN current_config) = 1 => Synced

\* C9 witness: the one tracked id was fetched, nothing changed since, and the
\* next add_listener returned None
C9_Witness ==
  \E t \in Tasks :
    /\ pc[t] = "wf_match" /\ ~dirty[t] /\ Synced
    /\ Cardinality(DOMAIN current_config) = 1
    /\ resp[t] = Success(<< >>)
    /\ listened[t] = None

\* a non-empty text none of whose records has three fields
Unparseable(text) ==
  /\ text # << >>
  /\ \A k \in DOMAIN RecordsOf(text) : Malformed(RecordsOf(text)[k])

\* C10 as stated: a long-poll answered with an unparseable text ends
\* wait_for_new_config with the Custom (protocol) error.
C10_UnparseableIsError ==
  \A t \in Tasks :
    InWaitCall(t) /\ req[t].method = "POST" /\ resp[t].kind = "ok"
      /\ Unparseable(resp[t].body) /\ pc[t] # "al_resp" =>
        pc[t] = "done" /\ result[t].err = "Custom"

\* C10 amended: an unparseable text is no error either: add_listener returns
\* None for it and wait_for_new_config polls again; the only error
\* wait_for_new_config returns is the failure of its last request.
C10_UnparseableIsNoChange ==
  /\ [](\A t \in Tasks :
          /\ pc[t] = "wf_match" /\ Unparseable(resp[t].body) => listened[t] = None
          /\ pc[t] = "done" /\ InWaitCall(t) /\ result[t].kind = "err" =>
               result[t] = ReqwestError /\ resp[t] = Failure)
  /\ [][\A t \in Tasks :
          pc[t] = "wf_match" /\ Unparseable(resp[t].body) /\ pc'[t] # pc[t] =>
            pc'[t] = "al_lock" /\ result'[t] = NoResult]_vars

\* C10 witness: the text x was answered and add_listener returned None
C10_Witness ==
  \E t \in Tasks :
    pc[t] = "wf_match" /\ resp[t].body = << "x" >> /\ listened[t] = None

\* the text before the first line feed
FirstLine(text) ==
  LET feeds == { i \in DOMAIN text : text[i] = LF }
  IN  IF feeds = {} THEN text
      ELSE SubSeq(text, 1, (CHOOSE i \in feeds : \A j \in feeds : i <= j) - 1)

NotAnIp == << "n", "o", "t", "-", "a", "n", "-", "i", "p" >>

\* the task is being handed the value of refresh_acm_server, whose request
\* the address server answered
Refreshed(t) == pc[t] = "done" /\ req[t].method = "RESOLVE" /\ resp[t].kind = "ok"

\* C11 as stated: a first line that is no IPv4 address fails with the
\* AddrParseError kind, at construction and at refresh.
C11_FailsWithAddrParseError ==
  /\ phase = "failed" /\ newResp.kind = "ok" => newResult.err = "AddrParseError"
  /\ \A t \in Tasks :
       Refreshed(t) /\ result[t].kind = "err" => result[t].err = "AddrParseError"

\* C11 amended: only the first line of the address server's text is
\* consulted: 1.2.3.4 followed by a line feed and garbage resolves to 1.2.3.4;
\* a first line that is no IPv4 address fails with the Custom kind, whose
\* message carries that line, at construction and at refresh.
C11_FirstLineOrCustom ==
  /\ [](phase \in { "ready", "failed" } /\ newResp.kind = "ok" =>
          IF ParseIpv4(FirstLine(newResp.body)) # NoAddr
          THEN phase = "ready" /\ newResult.kind = "ok"
          ELSE /\ phase = "failed"
               /\ newResult = Custom(FirstLine(newResp.body) \o << " is not a valid ipv4 address" >>))
  /\ [](\A t \in Tasks :
          Refreshed(t) =>
            IF ParseIpv4(FirstLine(resp[t].body)) # NoAddr
            THEN /\ result[t].kind = "ok"
                 /\ acm_server = ParseIpv4(FirstLine(resp[t].body))
                 /\ (resp[t].body = << "1", ".", "2", ".", "3", ".", "4", LF, "x" >> =>
                       acm_server = << 1, 2, 3, 4 >>)
            ELSE result[t] = Custom(FirstLine(resp[t].body) \o << " is not a valid ipv4 address" >>))
  /\ [][phase = "new_resp" /\ phase' = "ready" =>
          /\ acm_server' = ParseIpv4(FirstLine(newResp.body))
          /\ (newResp.body = << "1", ".", "2", ".", "3", ".", "4", LF, "x" >> =>
                acm_server' = << 1, 2, 3, 4 >>)]_vars

\* C11 witness: the instance was built from 1.2.3.4 followed by garbage, and a
\* refresh answered with not-an-ip failed with the Custom error naming it
C11_Witness ==
  \E t \in Tasks :
    /\ phase = "ready"
    /\ newResp.body = << "1", ".", "2", ".", "3", ".", "4", LF, "x" >>
    /\ acm_server = << 1, 2, 3, 4 >>
    /\ Refreshed(t)
    /\ resp[t].body = NotAnIp
    /\ result[t] = Custom(NotAnIp \o << " is not a valid ipv4 address" >>)

\* the step ends a refresh_acm_server of task t with Ok(())
RefreshSucceeds(t) ==
  /\ req[t].method = "RESOLVE"
  /\ pc[t] # "done" /\ pc'[t] = "done"
  /\ result'[t].kind = "ok"

\* C12: once the instance exists, the stored server address changes only in
\* the step that ends a refresh_acm_server with success, and becomes the
\* address that refresh resolved; every step of wait_for_new_config,
\* add_listener and get_config and a refresh that fails leave it as it was;
\* an instance always holds an address, and a construction whose resolution
\* fails leaves no instance to call.
C12_AddressChangesOnlyByRefresh ==
  /\ [][phase = "ready" /\ acm_server' # acm_server =>
          \E t \in Tasks : RefreshSucceeds(t) /\ acm_server' = resolved[t]]_vars
  /\ [][\A t \in Tasks :
          InWaitCall(t) /\ pc'[t] # pc[t] /\ pc[t] # "done" =>
            acm_server' = acm_server]_vars
  /\ [][\A t \in Tasks :
          pc[t] = "rf_resp" /\ pc'[t] = "done" =>
            result'[t].kind = "err" /\ acm_server' = acm_server]_vars
  /\ [](phase = "ready" => acm_server # NoAddr)
  /\ [](phase # "ready" => acm_server = NoAddr /\ pc = Idle)
  /\ [][phase = "failed" => phase' = "failed"]_vars

\* C12 witness: a refresh failed beside a watch loop that has polled, fetched
\* and updated, and the instance still holds the address it was built with
C12_Witness ==
  \E t, u \in Tasks :
    /\ pc[t] = "done" /\ req[t].method = "RESOLVE" /\ result[t].kind = "err"
    /\ pc[u] = "done" /\ ReturnsChange(u)
    /\ acm_server = ParseIpv4(FirstLine(newResp.body))
    /\ acm_server # NoAddr

\* C13: decoding the empty response text returns None, and add_listener on
\* an empty response yields None; the step that decodes a response changes no
\* fingerprint, no lock and not the server address, so decoding the same text
\* again in the state it leaves returns the value it returned.
C13_DecodeIsPureRead ==
  /\ [](phase = "ready" =>
          /\ decode_acm_entry(current_config, << >>).id = None
          /\ ListenResult(current_config, << >>).id = None)
  /\ [](\A t \in Tasks :
          pc[t] = "wf_match" =>
            /\ (resp[t].body = << >> => listened[t] = None)
            /\ listened[t] = ListenResult(current_config, resp[t].body).id
            /\ (resp[t].body # << >> =>
                  listened[t] = decode_acm_entry(current_config, resp[t].body).id))
  /\ [][\A t \in Tasks :
          pc[t] = "al_resp" /\ pc'[t] # "al_resp" =>
            /\ current_config' = current_config
            /\ acm_server' = acm_server
            /\ md5Lock' = md5Lock /\ addrLock' = addrLock
            /\ resp'[t] = resp[t]]_vars

\* C13 witness: an empty response was decoded to None while a fingerprint of
\* an earlier change is stored
C13_Witness ==
  \E t \in Tasks :
    /\ pc[t] = "wf_match"
    /\ resp[t] = Success(<< >>)
    /\ listened[t] = None
    /\ \E k \in DOMAIN current_config : current_config[k] = Md5Hex(X1)

\* the four inputs of the signature of signing i
SigInput(i) ==
  << signed[i].group.secret_key, signed[i].group.namespace, signed[i].group.group,
     ToDecimal(signed[i].now) >>

\* the message signing i signed
SigMessage(i) == SignedMessage(signed[i].group, ToDecimal(signed[i].now))

HasPlus(s) == \E k \in DOMAIN s : s[k] = "+"

\* neither the namespace nor the group of signing i contains a "+"
PlusFree(i) == ~HasPlus(signed[i].group.namespace) /\ ~HasPlus(signed[i].group.group)

\* C14 as stated: two signings whose (secret key, namespace, group,
\* timestamp) differ in any component sign different messages and carry
\* different signatures.
C14_DifferentInputsDifferentSignatures ==
  \A i, j \in Signings :
    signed[i] # NoSigned /\ signed[j] # NoSigned /\ SigInput(i) # SigInput(j) =>
      /\ << signed[i].group.secret_key, SigMessage(i) >> # << signed[j].group.secret_key, SigMessage(j) >>
      /\ signed[i].headers.SpasSignature # signed[j].headers.SpasSignature

\* C14 amended: the signature is base64 of HMAC-SHA1, keyed by the secret
\* key, of namespace + "+" + group + "+" + the timestamp carried by the
\* timeStamp header; signings with equal (secret key, namespace, group,
\* timestamp) carry equal signatures whatever the access key; signings whose
\* namespace and group contain no "+" and whose inputs differ in a component
\* sign different messages and carry different signatures; signings with
\* different (key, message) carry different signatures.
C14_SignatureOfMessage ==
  \A i, j \in Signings :
    signed[i] # NoSigned /\ signed[j] # NoSigned =>
      /\ signed[i].headers.timeStamp = ToDecimal(signed[i].now)
      /\ signed[i].headers.SpasSignature =
           Base64HmacSha1(signed[i].group.secret_key,
                          signed[i].group.namespace \o << "+" >> \o signed[i].group.group
                            \o << "+" >> \o signed[i].headers.timeStamp)
      /\ (SigInput(i) = SigInput(j) =>
            signed[i].headers.SpasSignature = signed[j].headers.SpasSignature)
      /\ (PlusFree(i) /\ PlusFree(j) /\ SigInput(i) # SigInput(j) =>
            /\ << signed[i].group.secret_key, SigMessage(i) >>
                 # << signed[j].group.secret_key, SigMessage(j) >>
            /\ signed[i].headers.SpasSignature # signed[j].headers.SpasSignature)
      /\ (<< signed[i].group.secret_key, SigMessage(i) >>
             # << signed[j].group.secret_key, SigMessage(j) >> =>
            signed[i].headers.SpasSignature # signed[j].headers.SpasSignature)

\* C14 witness: two signings with different access keys and equal inputs
\* carry one signature, which is not the one of the same group a clock
\* reading later
C14_Witness ==
  /\ signed[1] # NoSigned /\ signed[2] # NoSigned
  /\ signed[1].group.access_key # signed[2].group.access_key
  /\ PlusFree(1) /\ PlusFree(2)
  /\ SigInput(1) = SigInput(2)
  /\ signed[1].headers.SpasSignature = signed[2].headers.SpasSignature
  /\ signed[1].headers.SpasSignature
       # header(signed[1].group, 12).SpasSignature
  /\ signed[1].now = 1

\* the text holds the record of id with the configured group and namespace
HasRecordFor(text, id) ==
  \E k \in DOMAIN Split(text, PCT01) :
    Split(text, PCT01)[k] = id \o PCT02 \o group.group \o PCT02 \o group.namespace

\* the long-poll of task t was answered with a record for the tracked id
AnsweredWith(t, id) ==
  /\ pc[t] = "al_resp"
  /\ resp[t].kind = "ok"
  /\ id \in DOMAIN current_config
  /\ HasRecordFor(resp[t].body, id)

\* between a None of add_listener and the sending of the next long-poll
AfterNothing(t) ==
  \/ pc[t] = "wf_match" /\ listened[t] = None
  \/ pc[t] \in { "al_lock", "al_url", "enc_lock", "enc_read" } /\ req[t].method = "POST"

ProbeRecords(probe) ==
  LET pieces == Split(probe, << SOH >>)
  IN  SubSeq(pieces, 1, Len(pieces) - 1)

\* what is left of a probe behind its last 0x01
ProbeRest(probe) == Split(probe, << SOH >>)[Len(Split(probe, << SOH >>))]

\* the long-poll of task t is in flight or answered
Probing(t) == pc[t] \in { "al_wait", "al_resp" }

\* C16: the probe sent by add_listener is a sequence of records that each end
\* with 0x01, with nothing behind the last; there is exactly one record for
\* each key of current_config; each record is id, 0x02, the configured group,
\* 0x02, the md5 stored for id, 0x02, the configured namespace; an instance
\* built with no ids sends the empty probe.
C16_ProbeHasOneRecordPerKey ==
  \A t \in Tasks :
    Probing(t) =>
      LET records == ProbeRecords(req[t].body)
          fields(k) == Split(records[k], << STX >>)
      IN  /\ ProbeRest(req[t].body) = << >>
          /\ Len(records) = Cardinality(DOMAIN current_config)
          /\ \A k \in DOMAIN records :
               /\ Len(fields(k)) = 4
               /\ fields(k)[1] \in DOMAIN current_config
               /\ fields(k)[2] = group.group
               /\ fields(k)[3] = current_config[fields(k)[1]]
               /\ fields(k)[4] = group.namespace
          /\ \A id \in DOMAIN current_config :
               Cardinality({ k \in DOMAIN records : fields(k)[1] = id }) = 1
          /\ (ids = << >> => req[t].body = << >>)
          /\ req[t].body = encode_acm_entries(current_config, iterOrder)

\* C16 witness: a probe of two records, one with the md5 of x=2 and one
\* with the empty md5 of an entry that was never fetched
C16_Witness ==
  \E t \in Tasks :
    /\ Probing(t)
    /\ Len(ProbeRecords(req[t].body)) = 2
    /\ \E k, j \in 1..2 :
         /\ Split(ProbeRecords(req[t].body)[k], << STX >>)[3] = Md5Hex(X2)
         /\ Split(ProbeRecords(req[t].body)[j], << STX >>)[3] = << >>

\* wait_for_new_config of task t is returning the error of its get_config
FetchFailed(t) ==
  pc[t] = "done" /\ req[t].method = "GET" /\ result[t].kind = "err"

\* C17: when add_listener yields an id and the get_config that follows fails,
\* wait_for_new_config returns the error and every md5 is what it was when the
\* call began; until a later fetch of that id succeeds its stored md5 stays
\* the old one, every later probe carries that md5 for the id, and the
\* honest server, as long as the entry's content differs from it, reports
\* the id again, so that add_listener yields an id again.
C17_FailedFetchKeepsChange ==
  /\ \A t \in Tasks :
       FetchFailed(t) =>
         /\ result[t] = ReqwestError
         /\ listened[t] = Some(req[t].dataId)
         /\ current_config = snapshot[t]
         /\ unfetched = [ id |-> req[t].dataId, md5 |-> snapshot[t][req[t].dataId] ]
  /\ unfetched # NoUnfetched => current_config[unfetched.id] = unfetched.md5
  /\ \A t \in Tasks :
       unfetched # NoUnfetched /\ Probing(t) =>
         ProbeMd5(req[t].body, unfetched.id) = unfetched.md5
  /\ \A t \in Tasks :
       /\ unfetched # NoUnfetched
       /\ pc[t] \in { "al_resp", "wf_match" } /\ resp[t].kind = "ok" /\ ~dirty[t]
       /\ Md5Hex(serverContent[unfetched.id]) # unfetched.md5
       => /\ HasRecordFor(resp[t].body, unfetched.id)
          /\ (pc[t] = "wf_match" => listened[t] # None)

\* C17 witness: after a failed fetch of a, whose md5 of x=1 is kept while the
\* server holds x=2, the next long-poll reports a again
C17_Witness ==
  \E t \in Tasks :
    /\ unfetched = [ id |-> A, md5 |-> Md5Hex(X1) ]
    /\ serverContent[A] = X2
    /\ pc[t] = "wf_match"
    /\ req[t].method = "POST"
    /\ ProbeMd5(req[t].body, A) = Md5Hex(X1)
    /\ listened[t] = Some(A)

\* the task is in an encode pass, between its first lock and its send
InPass(t) == pc[t] \in { "enc_lock", "enc_read" }

\* the pass of the task has read every entry
PassOver(t) == pc[t] = "enc_lock" /\ encPos[t] > Len(iterOrder)

\* the values an entry can hold: the initial empty string or a digest
WholeMd5s == { << >> } \cup { Md5Hex(c) : c \in Contents }

\* the record of an entry, as the probe format writes it
ProbeRecord(id, md5) ==
  id \o << STX >> \o group.group \o << STX >> \o md5 \o << STX >> \o group.namespace
     \o << SOH >>

RECURSIVE PassMessages(_, _)
\* the messages of the first n entries in which every record carries an md5
\* its entry has held since the pass of the task began
PassMessages(t, n) ==
  IF n = 0 THEN { << >> }
  ELSE { m \o ProbeRecord(iterOrder[n], v) :
           m \in PassMessages(t, n - 1), v \in held[t][iterOrder[n]] }

\* C18: with two callers of wait_for_new_config on one instance, the md5 an
\* encode pass has written for an id is one whole value the entry has held at
\* some moment since the pass began, read in one step under the entry's lock;
\* an update is made under the lock of its id, changes the md5 of no other id
\* and nothing of the message of any pass; a pass during which an entry held
\* one value only (so every pass that began after the last update ended)
\* carries that value.
C18_PassReadsWholeValues ==
  /\ [](\A t \in Tasks :
          InPass(t) =>
            /\ message[t] \in PassMessages(t, encPos[t] - 1)
            /\ \A id \in DOMAIN held[t] :
                 /\ held[t][id] \subseteq WholeMd5s
                 /\ current_config[id] \in held[t][id]
                 /\ (held[t][id] = { current_config[id] } /\ PassOver(t) =>
                       ProbeMd5(message[t], id) = current_config[id]))
  /\ [][\A t \in Tasks :
          pc[t] = "enc_read" /\ pc'[t] # "enc_read" =>
            /\ md5Lock[iterOrder[encPos[t]]] = t
            /\ message'[t] = message[t] \o ProbeRecord(iterOrder[encPos[t]],
                                                        current_config[iterOrder[encPos[t]]])
            /\ current_config' = current_config]_vars
  /\ [][\A u \in Tasks :
          pc[u] = "um_write" /\ pc'[u] # "um_write" =>
            /\ md5Lock[listened[u][1]] = u
            /\ \A k \in DOMAIN current_config \ { listened[u][1] } :
                 current_config'[k] = current_config[k]
            /\ message' = message]_vars

\* C18 witness: a pass is over during which a was updated: it carries the
\* old md5 of a, the entry holds the new one, and b is read as it is
C18_Witness ==
  \E t \in Tasks :
    /\ PassOver(t)
    /\ held[t][A] = { Md5Hex(X1), Md5Hex(X2) }
    /\ ProbeMd5(message[t], A) = Md5Hex(X1)
    /\ current_config[A] = Md5Hex(X2)
    /\ ProbeMd5(message[t], B) = current_config[B]

\* the locks the task holds
LocksHeld(t) ==
  (IF addrLock = t THEN { << "acm_server" >> } ELSE {})
    \cup { k \in DOMAIN md5Lock : md5Lock[k] = t }

\* a request of the task is in flight, or its response is not yet taken
Suspended(t) == pc[t] \in { "al_wait", "al_resp", "gc_wait", "gc_resp", "rf_wait", "rf_resp" }

\* the task is at a lock() that another task's guard keeps it from
BlockedBy(t, u) ==
  \/ pc[t] \in { "al_lock", "gc_lock", "rf_lock" } /\ addrLock = u
  \/ pc[t] = "enc_lock" /\ encPos[t] <= Len(iterOrder) /\ md5Lock[iterOrder[encPos[t]]] = u
  \/ pc[t] = "um_lock" /\ listened[t][1] \in DOMAIN md5Lock /\ md5Lock[listened[t][1]] = u

\* the next step of the task drops the guard it holds, whatever the others do
Releasing(t) == pc[t] \in { "al_url", "gc_url", "rf_store", "enc_read", "um_write" }

\* C19: a task holds at most one lock; it holds none while a request of its is
\* in flight, and holds one only in the step that reads or writes the locked
\* cell; a task kept from a lock is kept by a task whose next step drops that
\* lock, so no set of calls waits in a circle; what keeps a refresh from the
\* address lock is never a task with a request in flight, and a task inside
\* refresh_acm_server holds no md5 lock, so it keeps nobody from an update.
C19_LocksAreShortAndSingle ==
  \A t \in Tasks :
    /\ Cardinality(LocksHeld(t)) <= 1
    /\ (Suspended(t) => LocksHeld(t) = {})
    /\ (LocksHeld(t) # {} <=> Releasing(t))
    /\ (pc[t] \in { "al_url", "gc_url", "rf_store" } => LocksHeld(t) = { << "acm_server" >> })
    /\ (pc[t] = "enc_read" => LocksHeld(t) = { iterOrder[encPos[t]] })
    /\ (pc[t] = "um_write" => LocksHeld(t) = { listened[t][1] })
    /\ \A u \in Tasks :
         BlockedBy(t, u) => u # t /\ Releasing(u) /\ ~Suspended(u) /\ \A v \in Tasks : ~BlockedBy(u, v)
    /\ (pc[t] \in { "rf_wait", "rf_resp", "rf_lock", "rf_store" } =>
          \A k \in DOMAIN md5Lock : md5Lock[k] # t)

\* C19 witness: a refresh stores the new address under the address lock
\* while another task writes an md5 under the lock of a, and neither waits
C19_Witness ==
  \E t, u \in Tasks :
    /\ pc[t] = "rf_store" /\ LocksHeld(t) = { << "acm_server" >> }
    /\ pc[u] = "um_write" /\ LocksHeld(u) = { A }

====
